---- MODULE Spec2Model ----
(***************************************************************************)
(* Token lifecycle (TeslaAuth) and resilient API client (TeslaClient) of   *)
(* the Tesla Prometheus exporter, as a state machine.                      *)
(*                                                                         *)
(* One Python thread runs the operations, so a handler that is in progress *)
(* is the only thing that can take a step (pc says where it stands); the   *)
(* environment contributes the HTTP responses, the I/O faults of the token *)
(* file and the passing of time.                                           *)
(***************************************************************************)
EXTENDS Integers, Sequences, FiniteSets, TLC

VARIABLES
    token_data,    \* TeslaAuth._token_data: None or a dict
    file,          \* the token file at Config.token_file_path
    now,           \* time.time(), in seconds
    pc,            \* position of the running handler, "idle" between operations
    rfReturn,      \* who called refresh_access_token
    attempt,       \* TeslaClient._request: loop variable attempt
    backoff,       \* TeslaClient._request: backoff
    rfAttempt,     \* refresh_access_token: loop variable attempt
    rfBackoff,     \* refresh_access_token: backoff
    reqToken,      \* TeslaClient._request: token of the current attempt
    op,            \* the operation last started: the one running, or the one just over
    result,        \* value returned by the operation last finished
    raised,        \* exception the operation last finished raised, or "none"
    outcome,       \* the return statement _request left through
    httpCount,     \* API requests sent by the current _request
    sentAuth,      \* Authorization tokens of those requests, in order
    respLog,       \* what came back for those requests, in order
    reqSleeps,     \* time.sleep calls of the current _request, in order
    sleptAfter,    \* API requests it had sent when it last slept, 0 before
    refreshCalls,  \* refresh_access_token invocations in the current operation
    grants,        \* grant requests posted by the last refresh_access_token
    rfSleeps,      \* time.sleep calls of the last refresh_access_token
    rfOutcome,     \* how the last refresh_access_token ended
    lastGrant,     \* what came back for its latest grant request
    saveLog,       \* the save_token call of the last refresh or code exchange
    exhausted,     \* a refresh ran out of attempts and nothing was loaded since
    startCred,     \* _token_data as the current _request found it on entry
    forcedCred,    \* _token_data as its refresh after a 401 left it, Unset before
    config,        \* Config: wake_on_poll, poll_interval_seconds, sleep_poll_interval_seconds
    last_known_state,    \* SleepTracker._last_known_state
    last_data_fetch,     \* SleepTracker._last_data_fetch
    consecutive_errors,  \* SleepTracker._consecutive_errors
    trackerOp,     \* the SleepTracker method last called, with its argument
    trackerRet,    \* what it returned
    collector,     \* the TeslaCollector: its six fields
    writerPc,      \* polling thread inside update(): the statement it is at, 0 outside
    writerArgs,    \* the arguments of that update()
    mutations,     \* calls of update, record_error, mark_api_unreachable so far
    scrapePc,      \* scrape thread inside collect(): the line it is at
    snap,          \* what this collect() has read so far
    iter,          \* its iterator over _poll_errors.items()
    seen,          \* every value the collector's fields held during this collect()
    pollPc,        \* main: where the polling loop is
    stop_event,    \* main: the shutdown signal
    vehicle_id,    \* main: locals of the loop
    vehicle_name,
    current_state,
    elapsed,       \* wake_vehicle: seconds waited so far
    wait_interval, \* main: the wait chosen at the end of the last cycle
    cycles,        \* poll cycles started
    cycleLog,      \* the API calls of the current cycle, in order
    listed,        \* the state this cycle's list gave for the target vehicle, if any
    wakeOk,        \* wake_vehicle returned True in this cycle
    sinkBefore,    \* the collector as the cycle found it
    listFailures,  \* cycles in a row, up to this one, whose list gave no vehicle or raised
    reported,      \* the target vehicle's state in the latest list that showed it
    cycleEnd,      \* how the current cycle ended, "running" until then
    lastList       \* what the latest list_vehicles gave: the vehicles, or that it raised

reqVars  == <<attempt, backoff, reqToken, outcome, httpCount, sentAuth, respLog, reqSleeps,
              sleptAfter>>
rfVars   == <<rfReturn, rfAttempt, rfBackoff, grants, rfSleeps, rfOutcome, lastGrant,
             saveLog>>
\* TeslaAuth and TeslaClient, but for the clock
clientVars == <<token_data, file, pc, rfReturn, attempt, backoff, rfAttempt, rfBackoff,
                reqToken, op, result, raised, outcome, httpCount, sentAuth, respLog,
                reqSleeps, sleptAfter, refreshCalls, grants, rfSleeps, rfOutcome, lastGrant,
                saveLog, exhausted, startCred, forcedCred>>
trackerVars == <<last_known_state, last_data_fetch, consecutive_errors, trackerOp, trackerRet>>
\* everything outside TeslaAuth and TeslaClient
sinkVars == <<collector, writerPc, writerArgs, mutations>>
scrapeVars == <<scrapePc, snap, iter, seen>>
pollLocals == <<vehicle_id, vehicle_name, current_state>>
pollGhosts == <<cycleLog, listed, wakeOk, sinkBefore, listFailures, reported, cycleEnd,
                lastList>>
pollVars == <<pollPc, stop_event, pollLocals, elapsed, wait_interval, cycles, pollGhosts>>
exporterVars == <<config, trackerVars, sinkVars, scrapeVars, pollVars>>
vars == <<now, clientVars, exporterVars>>

(***************************************************************************)
(* Bounds of the model.                                                    *)
(***************************************************************************)
MaxTime == 2        \* the clock stops here

(***************************************************************************)
(* Constants of the program.                                               *)
(***************************************************************************)
RefreshMargin == 300
DefaultExpiresIn == 3600
RefreshMaxRetries == 5
RequestMaxRetries == 3
BackoffCap == 60
DefaultRetryAfter == 30

(***************************************************************************)
(* Python values.  A dict is a function from its keys; None, tokens and    *)
(* response bodies are records so that any two values can be compared.     *)
(***************************************************************************)
None == [py_none |-> TRUE]
Unset == [py_unset |-> TRUE]
AccessTok(n) == [at |-> n]
RefreshTok(n) == [rt |-> n]
EmptyDict == [k \in {} |-> 0]

Get(d, k, default) == IF k \in DOMAIN d THEN d[k] ELSE default

Min(a, b) == IF a <= b THEN a ELSE b

Drop(d, ks) == [k \in (DOMAIN d) \ ks |-> d[k]]

(***************************************************************************)
(* json.dump / json.load of a flat dict.  The document is the sequence of  *)
(* members of the JSON object, in the dict's order; loading builds the     *)
(* dict back from the members, the last member of a key winning.           *)
(***************************************************************************)
KeyOrder == <<"access_token", "refresh_token", "expires_at", "token_type", "created_at">>

JsonDumpTokens(d) ==
    LET ks == SelectSeq(KeyOrder, LAMBDA k : /\ k \in DOMAIN d
                                            /\ k \in {"access_token", "refresh_token"})
    IN  [i \in 1..Len(ks) |-> <<ks[i], d[ks[i]]>>]

json_dump(d) ==
    LET ks == SelectSeq(KeyOrder, LAMBDA k : k \in DOMAIN d)
    IN  [i \in 1..Len(ks) |-> <<ks[i], d[ks[i]]>>]

json_load(text) ==
    LET Last(k) == CHOOSE i \in DOMAIN text :
                      /\ text[i][1] = k
                      /\ \A j \in DOMAIN text : text[j][1] = k => j <= i
    IN  [k \in {text[i][1] : i \in DOMAIN text} |-> text[Last(k)][2]]

Absent == [kind |-> "absent"]
Corrupt == [kind |-> "corrupt"]
JsonFile(d) == [kind |-> "json", text |-> json_dump(d)]

(***************************************************************************)
(* TeslaAuth.is_token_valid and the value the access_token property ends   *)
(* with.                                                                   *)
(***************************************************************************)
IsTokenValidEarly(td, t) ==
    IF td = None THEN FALSE ELSE t < Get(td, "expires_at", 0) - 2 * RefreshMargin

IsTokenValidLate(td, t) ==
    IF td = None THEN FALSE ELSE t < Get(td, "expires_at", 0)

is_token_valid(td, t) ==
    IF td = None THEN FALSE ELSE t < Get(td, "expires_at", 0) - RefreshMargin

\* self._token_data.get("access_token") if self._token_data else None
TokenOrNone(td) ==
    IF td = None \/ DOMAIN td = {} THEN None ELSE Get(td, "access_token", None)

\* the guard at the head of refresh_access_token
HasRefreshToken(td) == td # None /\ "refresh_token" \in DOMAIN td

(***************************************************************************)
(* The token endpoint's answers.  A 200 carries a body; the body of a      *)
(* well-behaved server has all four keys, others lack one.  A token pair   *)
(* the endpoint issues differs from every pair the program still holds, in *)
(* memory or on disk.                                                      *)
(***************************************************************************)
TokenIds == 0..2

IdsOf(td) ==
    {td[k].at : k \in (DOMAIN td) \cap {"access_token"}}
        \cup {td[k].rt : k \in (DOMAIN td) \cap {"refresh_token"}}

HeldIds ==
    (IF token_data = None THEN {} ELSE IdsOf(token_data))
        \cup (IF file.kind = "json" THEN IdsOf(json_load(file.text)) ELSE {})

FreshId == CHOOSE n \in TokenIds : n \notin HeldIds

ExpiresInValues == {RefreshMargin, RefreshMargin + 1}

FullBody(n, e) ==
    [access_token |-> AccessTok(n), refresh_token |-> RefreshTok(n),
     expires_in |-> e, token_type |-> "Bearer"]

GrantBodies(n) ==
    {FullBody(n, e) : e \in ExpiresInValues}
        \cup {Drop(FullBody(n, RefreshMargin + 1), {k}) :
                 k \in {"access_token", "refresh_token", "expires_in", "token_type"}}

GrantResponses(n) ==
    {[kind |-> "http", status |-> 200, data |-> b] : b \in GrantBodies(n)}
        \cup {[kind |-> "http", status |-> 400, data |-> EmptyDict],
              [kind |-> "http", status |-> 503, data |-> EmptyDict],
              [kind |-> "exc", status |-> 0, data |-> EmptyDict]}

IsComplete(data) == {"access_token", "refresh_token"} \subseteq DOMAIN data

\* the dict refresh_access_token and exchange_code build from a 200 body
NewTokenData(data, t) ==
    [access_token |-> data["access_token"],
     refresh_token |-> data["refresh_token"],
     expires_at    |-> t + Get(data, "expires_in", DefaultExpiresIn),
     token_type    |-> Get(data, "token_type", "Bearer"),
     created_at    |-> t]

(***************************************************************************)
(* TeslaAuth.save_token(td), called with f on disk and mem in memory.      *)
(* fault names the call that raises OSError, if any; unlinkFails says      *)
(* whether the clean-up os.unlink raises too.  The result is what the call *)
(* leaves behind (left: its temporary file is still in the directory) and  *)
(* what it raises.                                                         *)
(***************************************************************************)
SaveFaults == {"none", "makedirs", "mkstemp", "write", "replace"}

SaveTokenEager(td, fault, unlinkFails, f, mem) ==
    IF fault = "none"
    THEN [file |-> JsonFile(td), mem |-> td, left |-> FALSE, raised |-> "none"]
    ELSE [file |-> f, mem |-> td, left |-> FALSE, raised |-> "OSError"]

save_token(td, fault, unlinkFails, f, mem) ==
    CASE fault = "none" ->
            \* mkstemp, json.dump, os.replace, then self._token_data = token_data
            [file |-> JsonFile(td), mem |-> td, left |-> FALSE, raised |-> "none"]
      [] fault = "makedirs" ->
            \* os.makedirs raises before the try block is entered
            [file |-> f, mem |-> mem, left |-> FALSE, raised |-> "OSError"]
      [] fault = "mkstemp" ->
            \* tmp_path is still unbound in the handler: os.unlink(tmp_path) raises
            \* UnboundLocalError, which except OSError does not catch
            [file |-> f, mem |-> mem, left |-> FALSE, raised |-> "UnboundLocalError"]
      [] OTHER ->
            \* json.dump or os.replace raises: the temporary file exists, the
            \* handler tries to unlink it and re-raises the OSError
            [file |-> f, mem |-> mem, left |-> unlinkFails, raised |-> "OSError"]

SaveInputs == {<<ft, u>> \in SaveFaults \X BOOLEAN : u => ft \in {"write", "replace"}}

NoSave == [called |-> FALSE, fault |-> "none", raised |-> "none", tmpLeft |-> FALSE]

SaveLogOf(fault, s) ==
    [called |-> TRUE, fault |-> fault, raised |-> s.raised, tmpLeft |-> s.left]

(***************************************************************************)
(* The state after construction: TeslaAuth.__init__ leaves no credential   *)
(* in memory; the token file is whatever an earlier run or the operator    *)
(* left on disk.                                                           *)
(***************************************************************************)
StoredCredential(e) ==
    [access_token |-> AccessTok(0), refresh_token |-> RefreshTok(0),
     expires_at |-> e, token_type |-> "Bearer", created_at |-> 0]

InitialCredentials ==
    {StoredCredential(e) : e \in {RefreshMargin, RefreshMargin + 1, DefaultExpiresIn}}
        \cup {Drop(StoredCredential(RefreshMargin), {"refresh_token"}), EmptyDict}

InitialFiles == {Absent, Corrupt} \cup {JsonFile(c) : c \in InitialCredentials}

AuthInit ==
    /\ token_data = None
    /\ file \in InitialFiles
    /\ pc = "idle"
    /\ rfReturn = "none"
    /\ attempt = 0
    /\ backoff = 1
    /\ rfAttempt = 0
    /\ rfBackoff = 1
    /\ reqToken = None
    /\ op = "none"
    /\ result = None
    /\ raised = "none"
    /\ outcome = "none"
    /\ httpCount = 0
    /\ sentAuth = <<>>
    /\ respLog = <<>>
    /\ reqSleeps = <<>>
    /\ sleptAfter = 0
    /\ refreshCalls = 0
    /\ grants = 0
    /\ rfSleeps = <<>>
    /\ rfOutcome = "none"
    /\ lastGrant = "none"
    /\ saveLog = NoSave
    /\ exhausted = FALSE
    /\ startCred = None
    /\ forcedCred = Unset

(***************************************************************************)
(* Book-keeping shared by the actions.                                     *)
(***************************************************************************)
ReqReset ==
    /\ attempt' = 0
    /\ backoff' = 1
    /\ reqToken' = None
    /\ outcome' = "none"
    /\ httpCount' = 0
    /\ sentAuth' = <<>>
    /\ respLog' = <<>>
    /\ reqSleeps' = <<>>
    /\ sleptAfter' = 0

\* no refresh loop runs after this step; how tells what became of the last call
RfReset(how) ==
    /\ rfReturn' = "none"
    /\ rfAttempt' = 0
    /\ rfBackoff' = 1
    /\ grants' = 0
    /\ rfSleeps' = <<>>
    /\ rfOutcome' = how
    /\ lastGrant' = "none"
    /\ saveLog' = NoSave

\* refresh_access_token, lines 77-86: payload built, backoff = 1, loop entered
EnterRefresh(ret) ==
    /\ pc' = "rf_post"
    /\ rfReturn' = ret
    /\ rfAttempt' = 0
    /\ rfBackoff' = 1
    /\ grants' = 0
    /\ rfSleeps' = <<>>
    /\ rfOutcome' = "running"
    /\ lastGrant' = "none"
    /\ saveLog' = NoSave

\* the operation in progress ends, returning val or raising exc
Finish(val, exc) ==
    /\ pc' = "idle"
    /\ result' = val
    /\ raised' = exc

(***************************************************************************)
(* TeslaAuth.load_token                                                    *)
(***************************************************************************)
\* lines 39-49: what load_token returns on the file f
LoadResult(f) == [loaded |-> f.kind = "json"]

LoadToken ==
    /\ pc = "idle"
    /\ op' = "load_token"
    /\ startCred' = None
    /\ forcedCred' = Unset
    /\ IF file.kind = "json"
       THEN /\ token_data' = json_load(file.text)
            /\ result' = LoadResult(file)
            /\ exhausted' = FALSE
       ELSE /\ result' = LoadResult(file)
            /\ UNCHANGED <<token_data, exhausted>>
    /\ raised' = "none"
    /\ refreshCalls' = 0
    /\ ReqReset
    /\ RfReset("none")
    /\ UNCHANGED <<file, now, pc>>
    /\ UNCHANGED exporterVars

(***************************************************************************)
(* TeslaAuth.exchange_code: the authorization-code grant, then save_token. *)
(***************************************************************************)
ExchangeCode(r, fault, unlinkFails) ==
    /\ pc = "idle"
    /\ (fault # "none") => (r.kind = "http" /\ r.data = FullBody(FreshId, RefreshMargin + 1))
    /\ op' = "exchange_code"
    /\ startCred' = None
    /\ forcedCred' = Unset
    /\ IF r.kind = "exc" \/ r.status # 200
       THEN \* requests.post or resp.raise_for_status() raises
            /\ Finish(None, IF r.kind = "exc" THEN "RequestException" ELSE "HTTPError")
            /\ saveLog' = NoSave
            /\ UNCHANGED <<token_data, file, exhausted>>
       ELSE IF IsComplete(r.data)
       THEN LET td == NewTokenData(r.data, now)
                s  == save_token(td, fault, unlinkFails, file, token_data)
            IN  /\ token_data' = s.mem
                /\ file' = s.file
                /\ saveLog' = SaveLogOf(fault, s)
                /\ Finish(IF s.raised = "none" THEN td ELSE None, s.raised)
                /\ exhausted' = IF s.raised = "none" THEN FALSE ELSE exhausted
       ELSE /\ Finish(None, "KeyError")
            /\ saveLog' = NoSave
            /\ UNCHANGED <<token_data, file, exhausted>>
    /\ refreshCalls' = 0
    /\ ReqReset
    /\ rfReturn' = "none"
    /\ rfAttempt' = 0
    /\ rfBackoff' = 1
    /\ grants' = 0
    /\ rfSleeps' = <<>>
    /\ rfOutcome' = "none"
    /\ lastGrant' = "none"
    /\ UNCHANGED now
    /\ UNCHANGED exporterVars

(***************************************************************************)
(* The access_token property read on its own (setup_token.py line 85).     *)
(***************************************************************************)
CallAccessToken ==
    /\ pc = "idle"
    /\ op' = "access_token"
    /\ startCred' = None
    /\ forcedCred' = Unset
    /\ ReqReset
    /\ IF token_data = None
       THEN /\ Finish(None, "none")
            /\ refreshCalls' = 0
            /\ RfReset("none")
       ELSE IF is_token_valid(token_data, now)
       THEN /\ Finish(TokenOrNone(token_data), "none")
            /\ refreshCalls' = 0
            /\ RfReset("none")
       ELSE /\ refreshCalls' = 1
            /\ IF HasRefreshToken(token_data)
               THEN /\ EnterRefresh("token")
                    /\ result' = None
                    /\ raised' = "none"
               ELSE /\ Finish(TokenOrNone(token_data), "none")
                    /\ RfReset("no_refresh_token")
    /\ UNCHANGED <<token_data, file, now, exhausted>>
    /\ UNCHANGED exporterVars

(***************************************************************************)
(* TeslaAuth.refresh_access_token called on its own.                       *)
(***************************************************************************)
CallRefresh ==
    /\ pc = "idle"
    /\ op' = "refresh"
    /\ startCred' = None
    /\ forcedCred' = Unset
    /\ ReqReset
    /\ refreshCalls' = 1
    /\ IF HasRefreshToken(token_data)
       THEN /\ EnterRefresh("direct")
            /\ result' = None
            /\ raised' = "none"
       ELSE /\ Finish(None, "none")
            /\ RfReset("no_refresh_token")
    /\ UNCHANGED <<token_data, file, now, exhausted>>
    /\ UNCHANGED exporterVars

(***************************************************************************)
(* TeslaClient._request, lines 25-31: the token of this attempt is in      *)
(* hand; without one the call is over.                                     *)
(***************************************************************************)
GotFirstToken(tok) ==
    IF tok = None
    THEN /\ Finish(None, "none")
         /\ outcome' = "auth"
         /\ UNCHANGED <<attempt, backoff, reqToken, httpCount, sentAuth, respLog, reqSleeps,
                        sleptAfter>>
    ELSE /\ pc' = "req_send"
         /\ reqToken' = IF httpCount = 0 THEN tok ELSE reqToken
         /\ UNCHANGED <<result, raised, attempt, backoff, outcome, httpCount, sentAuth,
                        respLog, reqSleeps, sleptAfter>>

\* lines 24-27: token = self._auth.access_token has returned tok
GotToken(tok) ==
    IF tok = None
    THEN /\ Finish(None, "none")
         /\ outcome' = "auth"
         /\ UNCHANGED <<attempt, backoff, reqToken, httpCount, sentAuth, respLog, reqSleeps,
                        sleptAfter>>
    ELSE /\ pc' = "req_send"
         /\ reqToken' = tok
         /\ UNCHANGED <<result, raised, attempt, backoff, outcome, httpCount, sentAuth,
                        respLog, reqSleeps, sleptAfter>>

\* refresh_access_token has returned to its caller; td is _token_data by now
Resume(td) ==
    CASE rfReturn = "direct" ->
            Finish(None, "none") /\ UNCHANGED reqVars
      [] rfReturn = "token" ->
            Finish(TokenOrNone(td), "none") /\ UNCHANGED reqVars
      [] rfReturn = "req_token" ->
            GotToken(TokenOrNone(td))
      [] rfReturn = "req_401" ->
            /\ pc' = "req_top"
            /\ attempt' = attempt + 1
            /\ UNCHANGED <<result, raised, backoff, reqToken, outcome, httpCount,
                           sentAuth, respLog, reqSleeps, sleptAfter>>

\* an exception leaves refresh_access_token; no caller up to the operation's
\* own caller catches it
Unwind(exc) == Finish(None, exc) /\ UNCHANGED reqVars

(***************************************************************************)
(* refresh_access_token, one turn of the loop of lines 87-121: the grant   *)
(* is posted and r comes back; after the last failed turn, lines 123-128.  *)
(***************************************************************************)
RefreshDelay(b) == Min(b, BackoffCap)

RefreshNextBackoffLinear(b) == b + 1

RefreshNextBackoff(b) == b * 2

RefreshLastAttempt(a) == ~(a < RefreshMaxRetries - 1)

KeepCredential(td) == td

\* line 128: self._token_data = None
DiscardCredential(td) == None

IncompleteBodyStored(data, t, f, mem) ==
    LET td == [k \in (DOMAIN data) \cap {"access_token", "refresh_token"} |-> data[k]]
    IN  [file |-> JsonFile(td), mem |-> td, left |-> FALSE, raised |-> "none"]

\* a 200 body that lacks a token: data["access_token"] or data["refresh_token"]
\* raises KeyError before save_token is reached
IncompleteBody(data, t, f, mem) ==
    [file |-> f, mem |-> mem, left |-> FALSE, raised |-> "KeyError"]

RefreshCatchesAll(exc) == TRUE

\* line 111: except requests.RequestException
RefreshCatches(exc) == exc = "RequestException"

GrantKind(r) ==
    IF r.kind = "exc" THEN "transport_failure"
    ELSE IF r.status # 200 THEN "non_200"
    ELSE IF IsComplete(r.data) THEN "complete_200" ELSE "incomplete_200"

RefreshPost(r, fault, unlinkFails) ==
    /\ pc = "rf_post"
    /\ (fault # "none") => (r.kind = "http" /\ r.data = FullBody(FreshId, RefreshMargin + 1))
    /\ grants' = grants + 1
    /\ lastGrant' = GrantKind(r)
    /\ LET ok200 == r.kind = "http" /\ r.status = 200
           saves == ok200 /\ IsComplete(r.data)
           s == IF saves
                THEN save_token(NewTokenData(r.data, now), fault, unlinkFails, file,
                                token_data)
                ELSE IF ok200
                THEN IncompleteBody(r.data, now, file, token_data)
                ELSE [file |-> file, mem |-> token_data, left |-> FALSE,
                      raised |-> IF r.kind = "exc" THEN "RequestException" ELSE "none"]
       IN  /\ file' = s.file
           /\ saveLog' = IF saves THEN SaveLogOf(fault, s) ELSE saveLog
           /\ IF ok200 /\ s.raised = "none"
              THEN \* lines 100-102: saved, return
                   /\ token_data' = s.mem
                   /\ rfOutcome' = "success"
                   /\ rfAttempt' = 0
                   /\ rfBackoff' = 1
                   /\ rfReturn' = "none"
                   /\ UNCHANGED <<rfSleeps, exhausted>>
                   /\ Resume(s.mem)
              ELSE IF s.raised # "none" /\ ~RefreshCatches(s.raised)
              THEN \* the exception leaves the loop and the function
                   /\ token_data' = s.mem
                   /\ rfOutcome' = "raised"
                   /\ rfAttempt' = 0
                   /\ rfBackoff' = 1
                   /\ rfReturn' = "none"
                   /\ UNCHANGED <<rfSleeps, exhausted>>
                   /\ Unwind(s.raised)
              ELSE IF RefreshLastAttempt(rfAttempt)
              THEN \* lines 123-128
                   /\ token_data' = DiscardCredential(s.mem)
                   /\ exhausted' = TRUE
                   /\ rfOutcome' = "exhausted"
                   /\ rfAttempt' = 0
                   /\ rfBackoff' = 1
                   /\ rfReturn' = "none"
                   /\ UNCHANGED rfSleeps
                   /\ Resume(token_data')
              ELSE \* lines 119-121
                   /\ token_data' = s.mem
                   /\ rfSleeps' = Append(rfSleeps, RefreshDelay(rfBackoff))
                   /\ rfBackoff' = RefreshNextBackoff(rfBackoff)
                   /\ rfAttempt' = rfAttempt + 1
                   /\ UNCHANGED <<exhausted, rfOutcome, rfReturn, pc, result, raised, reqVars>>
    /\ forcedCred' = IF rfReturn = "req_401" /\ pc' = "req_top" THEN token_data'
                                                                 ELSE forcedCred
    /\ UNCHANGED <<now, op, refreshCalls, startCred>>
    /\ UNCHANGED exporterVars

(***************************************************************************)
(* TeslaClient._request                                                    *)
(***************************************************************************)
ApiStatuses == {200, 401, 404, 408, 429, 500}

\* a header value is text: the sequence of its characters
RetryAfterHeader(text) == [k \in {"Retry-After"} |-> text]

DelaySeconds == <<"5">>

HttpDate == <<"W", "e", "d", ",", " ", "2", "1", " ", "O", "c", "t", " ", "2", "0", "2", "6",
              " ", "0", "7", ":", "2", "8", ":", "0", "0", " ", "G", "M", "T">>

ApiResponses ==
    {[kind |-> "http", status |-> st, headers |-> EmptyDict] : st \in ApiStatuses}
        \cup {[kind |-> "http", status |-> 429, headers |-> RetryAfterHeader(DelaySeconds)],
              [kind |-> "http", status |-> 429, headers |-> RetryAfterHeader(HttpDate)],
              [kind |-> "exc", status |-> 0, headers |-> EmptyDict]}

Digits == <<"0", "1", "2", "3", "4", "5", "6", "7", "8", "9">>

IsDigit(c) == \E d \in DOMAIN Digits : Digits[d] = c

DigitValue(c) == (CHOOSE d \in DOMAIN Digits : Digits[d] = c) - 1

RECURSIVE DecimalValue(_)
DecimalValue(text) ==
    IF text = <<>> THEN 0
    ELSE 10 * DecimalValue(SubSeq(text, 1, Len(text) - 1)) + DigitValue(text[Len(text)])

\* int(text) for a header value: the number a run of decimal digits spells,
\* ValueError for any other text
int_parse(text) ==
    IF text # <<>> /\ \A i \in DOMAIN text : IsDigit(text[i])
    THEN [ok |-> TRUE, value |-> DecimalValue(text)]
    ELSE [ok |-> FALSE, value |-> 0]

\* line 50: int(resp.headers.get("Retry-After", 30))
RetryAfterSeconds(headers) ==
    IF "Retry-After" \in DOMAIN headers
    THEN int_parse(headers["Retry-After"])
    ELSE [ok |-> TRUE, value |-> DefaultRetryAfter]

\* lines 18-21
CallRequest ==
    /\ pc = "idle"
    /\ op' = "request"
    /\ startCred' = token_data
    /\ forcedCred' = Unset
    /\ pc' = "req_top"
    /\ result' = None
    /\ raised' = "none"
    /\ refreshCalls' = 0
    /\ ReqReset
    /\ RfReset("none")
    /\ UNCHANGED <<token_data, file, now, exhausted>>
    /\ UNCHANGED exporterVars

RequestLoopOverLate(a) == ~(a < RequestMaxRetries + 1)

\* line 23: for attempt in range(max_retries)
RequestLoopOver(a) == ~(a < RequestMaxRetries)

\* lines 23-27: the head of the loop, and lines 85-86 once the loop has run out
ReqTop ==
    /\ pc = "req_top"
    /\ IF RequestLoopOver(attempt)
       THEN /\ Finish(None, "none")
            /\ outcome' = "exhausted"
            /\ UNCHANGED <<attempt, backoff, reqToken, httpCount, sentAuth, respLog,
                           reqSleeps, sleptAfter, refreshCalls, rfVars>>
       ELSE IF token_data = None \/ is_token_valid(token_data, now)
       THEN /\ GotToken(TokenOrNone(token_data))
            /\ UNCHANGED <<refreshCalls, rfVars>>
       ELSE /\ refreshCalls' = refreshCalls + 1
            /\ IF HasRefreshToken(token_data)
               THEN /\ EnterRefresh("req_token")
                    /\ UNCHANGED <<result, raised, reqVars>>
               ELSE /\ RfReset("no_refresh_token")
                    /\ GotToken(TokenOrNone(token_data))
    /\ UNCHANGED <<token_data, file, now, op, exhausted, startCred, forcedCred>>
    /\ UNCHANGED exporterVars

RequestDelay(b) == Min(b, BackoffCap)

RequestNextBackoffFlat(b) == b

RequestNextBackoff(b) == b * 2

\* the sleep of lines 63-65 and 81-83, then on to the next turn of the loop
BackoffAndContinue ==
    /\ IF attempt < RequestMaxRetries - 1
       THEN /\ reqSleeps' = Append(reqSleeps,
                                   [kind |-> "backoff", secs |-> RequestDelay(backoff)])
            /\ sleptAfter' = httpCount + 1
            /\ backoff' = RequestNextBackoff(backoff)
       ELSE UNCHANGED <<reqSleeps, sleptAfter, backoff>>
    /\ attempt' = attempt + 1
    /\ pc' = "req_top"
    /\ UNCHANGED <<result, raised, outcome, reqToken, refreshCalls, rfVars>>

ServerErrorFrom400(r) == r.kind = "http" /\ r.status >= 400

\* line 55: resp.status_code >= 500
ServerError(r) == r.kind = "http" /\ r.status >= 500

ForcedRefreshOnAny401(r, a) == r.kind = "http" /\ r.status = 401

\* line 40: resp.status_code == 401 and attempt == 0
ForcedRefreshOn(r, a) == r.kind = "http" /\ r.status = 401 /\ a = 0

\* lines 29-83: the request goes out with the token of this attempt, r comes back
ReqSend(r) ==
    /\ pc = "req_send"
    /\ httpCount' = httpCount + 1
    /\ sentAuth' = Append(sentAuth, reqToken)
    /\ respLog' = Append(respLog, r)
    /\ CASE r.kind = "exc" ->
                BackoffAndContinue
         [] r.kind = "http" /\ r.status = 200 ->
                /\ Finish([body |-> httpCount + 1], "none")
                /\ outcome' = "ok"
                /\ UNCHANGED <<attempt, backoff, reqToken, reqSleeps, sleptAfter, refreshCalls,
                               rfVars>>
         [] ForcedRefreshOn(r, attempt) ->
                /\ refreshCalls' = refreshCalls + 1
                /\ IF HasRefreshToken(token_data)
                   THEN /\ EnterRefresh("req_401")
                        /\ UNCHANGED <<result, raised, attempt, backoff, reqToken, outcome,
                                       reqSleeps, sleptAfter>>
                   ELSE /\ RfReset("no_refresh_token")
                        /\ pc' = "req_top"
                        /\ attempt' = attempt + 1
                        /\ UNCHANGED <<result, raised, backoff, reqToken, outcome, reqSleeps,
                                       sleptAfter>>
         [] r.kind = "http" /\ r.status = 408 ->
                /\ Finish(None, "none")
                /\ outcome' = "unreachable_408"
                /\ UNCHANGED <<attempt, backoff, reqToken, reqSleeps, sleptAfter, refreshCalls,
                               rfVars>>
         [] r.kind = "http" /\ r.status = 429 ->
                LET retry_after == RetryAfterSeconds(r.headers)
                IN  IF retry_after.ok
                    THEN /\ reqSleeps' = Append(reqSleeps,
                                                [kind |-> "retry_after",
                                                 secs |-> retry_after.value])
                         /\ sleptAfter' = httpCount + 1
                         /\ attempt' = attempt + 1
                         /\ pc' = "req_top"
                         /\ UNCHANGED <<result, raised, backoff, outcome, reqToken,
                                        refreshCalls, rfVars>>
                    ELSE \* int() raises ValueError, which nothing in _request catches
                         /\ Finish(None, "ValueError")
                         /\ UNCHANGED <<attempt, backoff, outcome, reqToken, reqSleeps, sleptAfter,
                                        refreshCalls, rfVars>>
         [] ServerError(r) ->
                BackoffAndContinue
         [] OTHER ->
                /\ Finish(None, "none")
                /\ outcome' = "client_error"
                /\ UNCHANGED <<attempt, backoff, reqToken, reqSleeps, sleptAfter, refreshCalls,
                               rfVars>>
    /\ forcedCred' = IF ForcedRefreshOn(r, attempt) /\ ~HasRefreshToken(token_data)
                     THEN token_data ELSE forcedCred
    /\ UNCHANGED <<token_data, file, now, op, exhausted, startCred>>
    /\ UNCHANGED exporterVars

(***************************************************************************)
(* Time passes, between operations and while one is in progress.           *)
(***************************************************************************)
TickSteps == {1}

Tick(d) ==
    /\ now + d <= MaxTime
    /\ now' = now + d
    /\ UNCHANGED <<clientVars, exporterVars>>

(***************************************************************************)
(* Config: the three polling settings, at their defaults and away from     *)
(* them.                                                                   *)
(***************************************************************************)
DefaultPollInterval == 300
DefaultSleepPollInterval == 660

DefaultConfig ==
    [tesla_vehicle_index |-> 0,
     wake_on_poll |-> FALSE,
     poll_interval_seconds |-> DefaultPollInterval,
     sleep_poll_interval_seconds |-> DefaultSleepPollInterval]

Configs ==
    [tesla_vehicle_index : {0},
     wake_on_poll : BOOLEAN,
     poll_interval_seconds : {DefaultPollInterval, 3 * DefaultPollInterval},
     sleep_poll_interval_seconds : {DefaultSleepPollInterval}]

Max(a, b) == IF a >= b THEN a ELSE b

(***************************************************************************)
(* SleepTracker.  Each method is the change it makes to the tracker's      *)
(* fields; trackerOp and trackerRet record the call and its return value.  *)
(***************************************************************************)
\* the states the API lists, and one it does not document
States == {"online", "asleep", "offline", "unknown", "waking"}

MaxErrors == 6
ErrorSlowdownThreshold == 5

\* a call: the method, its argument, the fields it found, and a bit that
\* every call flips, so that two equal calls in a row are two calls
TrackerCall(name, arg) ==
    [name |-> name, arg |-> arg, flip |-> 1 - trackerOp.flip,
     before |-> [state |-> last_known_state, errors |-> consecutive_errors]]

SleepTrackerInit ==
    /\ last_known_state = "unknown"
    /\ last_data_fetch = 0
    /\ consecutive_errors = 0
    /\ trackerOp = [name |-> "__init__", arg |-> None, flip |-> 0,
                    before |-> [state |-> "unknown", errors |-> 0]]
    /\ trackerRet = None

UpdateStateOnChange(state) ==
    /\ last_known_state' = state
    /\ consecutive_errors' = IF state # last_known_state THEN 0 ELSE consecutive_errors
    /\ trackerOp' = TrackerCall("update_state", state)
    /\ trackerRet' = None
    /\ UNCHANGED last_data_fetch

UpdateStateKeepsErrors(state) ==
    /\ last_known_state' = state
    /\ trackerOp' = TrackerCall("update_state", state)
    /\ trackerRet' = None
    /\ UNCHANGED <<last_data_fetch, consecutive_errors>>

update_state(state) ==
    /\ last_known_state' = state
    /\ consecutive_errors' = 0
    /\ trackerOp' = TrackerCall("update_state", state)
    /\ trackerRet' = None
    /\ UNCHANGED last_data_fetch

record_error ==
    /\ consecutive_errors < MaxErrors
    /\ consecutive_errors' = consecutive_errors + 1
    /\ trackerOp' = TrackerCall("record_error", None)
    /\ trackerRet' = None
    /\ UNCHANGED <<last_known_state, last_data_fetch>>

record_successful_fetch ==
    /\ last_data_fetch' = now
    /\ trackerOp' = TrackerCall("record_successful_fetch", None)
    /\ trackerRet' = None
    /\ UNCHANGED <<last_known_state, consecutive_errors>>

ShouldFetchAlways(state) == TRUE

ShouldFetchWhenAsleep(state) ==
    state \in {"online", "asleep"}

should_fetch_data(state) ==
    IF state = "online" THEN TRUE
    ELSE IF state = "asleep" THEN config.wake_on_poll
    ELSE IF state = "offline" THEN FALSE
    ELSE FALSE

GetPollIntervalLate ==
    IF consecutive_errors > ErrorSlowdownThreshold
    THEN Max(config.poll_interval_seconds, config.sleep_poll_interval_seconds)
    ELSE IF last_known_state \in {"asleep", "offline", "unknown"}
    THEN config.sleep_poll_interval_seconds
    ELSE config.poll_interval_seconds

get_poll_interval ==
    IF consecutive_errors >= ErrorSlowdownThreshold
    THEN Max(config.poll_interval_seconds, config.sleep_poll_interval_seconds)
    ELSE IF last_known_state \in {"asleep", "offline", "unknown"}
    THEN config.sleep_poll_interval_seconds
    ELSE config.poll_interval_seconds

CallShouldFetchData(state) ==
    /\ trackerOp' = TrackerCall("should_fetch_data", state)
    /\ trackerRet' = should_fetch_data(state)
    /\ UNCHANGED <<last_known_state, last_data_fetch, consecutive_errors>>

CallGetPollInterval ==
    /\ trackerOp' = TrackerCall("get_poll_interval", None)
    /\ trackerRet' = get_poll_interval
    /\ UNCHANGED <<last_known_state, last_data_fetch, consecutive_errors>>

\* what a call on the tracker leaves alone
trackerFrame == <<now, clientVars, config, sinkVars, scrapeVars, pollVars>>

(***************************************************************************)
(* TeslaCollector.  The polling thread calls update, record_error and      *)
(* mark_api_unreachable; the HTTP server's thread calls collect.  No       *)
(* method takes a lock, so the two threads interleave statement by         *)
(* statement.                                                              *)
(***************************************************************************)
MaxMutations == 2

\* __init__, lines 34-40; _poll_errors as its items in insertion order
NewCollector ==
    [vehicle_data |-> None,
     vehicle_state |-> "unknown",
     vehicle_name |-> "unknown",
     last_successful_poll |-> 0,
     api_reachable |-> FALSE,
     poll_errors |-> <<>>]

VehicleData == {[data |-> 1], [data |-> 2]}
ErrorTypes == {"vehicle_data_failed", "unexpected_error"}

UpdateArgs ==
    [data : {None} \cup VehicleData, state : {"online", "asleep"}, name : {"Tesla"}]

\* the i-th assignment of update(), lines 47-54, made at time t
UpdateStatement(c, i, args, t) ==
    CASE i = 1 -> [c EXCEPT !.vehicle_state = args.state]
      [] i = 2 -> [c EXCEPT !.vehicle_name = args.name]
      [] i = 3 -> [c EXCEPT !.api_reachable = TRUE]
      [] i = 4 -> [c EXCEPT !.vehicle_data = args.data]
      [] i = 5 -> [c EXCEPT !.last_successful_poll = t]

UpdateLengthAlways(args) == 5

\* line 52: the last two assignments only for data
UpdateLength(args) == IF args.data # None THEN 5 ELSE 3

RECURSIVE UpdateFrom(_, _, _, _)
UpdateFrom(c, i, args, t) ==
    IF i > UpdateLength(args) THEN c
    ELSE UpdateFrom(UpdateStatement(c, i, args, t), i + 1, args, t)

\* update() from call to return
update(c, args, t) == UpdateFrom(c, 1, args, t)

IndexOf(items, key) ==
    IF \E i \in DOMAIN items : items[i][1] = key
    THEN CHOOSE i \in DOMAIN items : items[i][1] = key
    ELSE 0

\* line 57: a new key goes to the end of the dict, a known key keeps its place
collector_record_error(c, error_type) ==
    LET i == IndexOf(c.poll_errors, error_type)
    IN  IF i = 0
        THEN [c EXCEPT !.poll_errors = Append(@, <<error_type, 1>>)]
        ELSE [c EXCEPT !.poll_errors[i] = <<error_type, @[2] + 1>>]

mark_api_unreachable(c) == [c EXCEPT !.api_reachable = FALSE]

NoSnap == <<>>
NoIter == [size |-> 0, pos |-> 0]

TeslaCollectorInit ==
    /\ collector = NewCollector
    /\ writerPc = 0
    /\ writerArgs = None
    /\ mutations = 0
    /\ scrapePc = "idle"
    /\ snap = NoSnap
    /\ iter = NoIter
    /\ seen = {}

Scraping == scrapePc \notin {"idle", "done", "failed"}

\* a write by the polling thread, as the scrape in progress meets it
Write(c) ==
    /\ collector' = c
    /\ seen' = IF Scraping THEN seen \cup {c} ELSE seen
    /\ UNCHANGED <<scrapePc, snap, iter>>
    /\ UNCHANGED <<now, clientVars, config, trackerVars, pollVars>>

\* update() is called and makes its first assignment
UpdateCall(args) ==
    /\ writerPc = 0
    /\ mutations < MaxMutations
    /\ mutations' = mutations + 1
    /\ writerArgs' = args
    /\ writerPc' = 2
    /\ Write(UpdateStatement(collector, 1, args, now))

\* its next assignment; it returns after the last
UpdateNext ==
    /\ writerPc > 0
    /\ writerPc' = IF writerPc = UpdateLength(writerArgs) THEN 0 ELSE writerPc + 1
    /\ writerArgs' = IF writerPc = UpdateLength(writerArgs) THEN None ELSE writerArgs
    /\ Write(UpdateStatement(collector, writerPc, writerArgs, now))
    /\ UNCHANGED mutations

RecordError(error_type) ==
    /\ writerPc = 0
    /\ mutations < MaxMutations
    /\ mutations' = mutations + 1
    /\ Write(collector_record_error(collector, error_type))
    /\ UNCHANGED <<writerPc, writerArgs>>

MarkApiUnreachable ==
    /\ writerPc = 0
    /\ mutations < MaxMutations
    /\ mutations' = mutations + 1
    /\ Write(mark_api_unreachable(collector))
    /\ UNCHANGED <<writerPc, writerArgs>>

\* a statement of collect(): the line it goes to and what it has read
Read(line, s) ==
    /\ scrapePc' = line
    /\ snap' = s
    /\ UNCHANGED <<collector, writerPc, writerArgs, mutations>>
    /\ UNCHANGED <<now, clientVars, config, trackerVars, pollVars>>

\* line 63
CollectName ==
    /\ scrapePc = "idle"
    /\ seen' = {collector}
    /\ iter' = NoIter
    /\ Read("l71", [name |-> collector.vehicle_name])

\* line 71
CollectUp ==
    /\ scrapePc = "l71"
    /\ Read("l80", [name |-> snap.name, up |-> collector.api_reachable])
    /\ UNCHANGED <<iter, seen>>

\* line 80
CollectReachable ==
    /\ scrapePc = "l80"
    /\ Read("l89", [name |-> snap.name, up |-> snap.up,
                    reachable |-> collector.vehicle_state = "online"])
    /\ UNCHANGED <<iter, seen>>

\* line 89: the test, and line 90: the second read of the field
CollectLastPoll ==
    /\ \/ /\ scrapePc = "l89"
          /\ IF collector.last_successful_poll > 0
             THEN Read("l90", snap)
             ELSE Read("l98", [name |-> snap.name, up |-> snap.up,
                               reachable |-> snap.reachable, last_poll |-> None])
       \/ /\ scrapePc = "l90"
          /\ Read("l98", [name |-> snap.name, up |-> snap.up,
                          reachable |-> snap.reachable,
                          last_poll |-> collector.last_successful_poll])
    /\ UNCHANGED <<iter, seen>>

WithErrors(s, e) ==
    [name |-> s.name, up |-> s.up, reachable |-> s.reachable,
     last_poll |-> s.last_poll, errors |-> e]

\* line 98: items() and the iterator over it, which notes the dict's size
CollectErrorsIter ==
    /\ scrapePc = "l98"
    /\ iter' = [size |-> Len(collector.poll_errors), pos |-> 0]
    /\ Read("l99", WithErrors(snap, <<>>))
    /\ UNCHANGED seen

\* lines 98-99: one turn of the loop.  The iterator raises RuntimeError
\* ("dictionary changed size during iteration") when the size is no longer
\* the one it noted.
CollectErrorsNext ==
    /\ scrapePc = "l99"
    /\ IF Len(collector.poll_errors) # iter.size
       THEN Read("failed", snap) /\ UNCHANGED iter
       ELSE IF iter.pos = iter.size
       THEN Read("l103", snap) /\ UNCHANGED iter
       ELSE /\ iter' = [iter EXCEPT !.pos = @ + 1]
            /\ Read("l99", WithErrors(snap, Append(snap.errors,
                                                  collector.poll_errors[iter.pos + 1])))
    /\ UNCHANGED seen

WithData(s, d) ==
    [name |-> s.name, up |-> s.up, reachable |-> s.reachable,
     last_poll |-> s.last_poll, errors |-> s.errors, data |-> d]

\* line 103: the test, and line 106: the second read of the field
CollectData ==
    /\ \/ /\ scrapePc = "l103"
          /\ IF collector.vehicle_data = None
             THEN Read("done", WithData(snap, None))
             ELSE Read("l106", snap)
       \/ /\ scrapePc = "l106"
          /\ Read("done", WithData(snap, collector.vehicle_data))
    /\ UNCHANGED <<iter, seen>>

\* the scrape is over; the next one starts afresh
CollectReturn ==
    /\ scrapePc \in {"done", "failed"}
    /\ seen' = {}
    /\ iter' = NoIter
    /\ Read("idle", NoSnap)

\* what a collect() that ran alone would report of the collector c
SnapshotOf(c) ==
    [name |-> c.vehicle_name,
     up |-> c.api_reachable,
     reachable |-> c.vehicle_state = "online",
     last_poll |-> IF c.last_successful_poll > 0 THEN c.last_successful_poll ELSE None,
     errors |-> c.poll_errors,
     data |-> c.vehicle_data]

(***************************************************************************)
(* main: the polling loop.  A call of TeslaClient._request is taken by its *)
(* outcome: the body of a 200, None, or an exception that it lets through. *)
(***************************************************************************)
MaxCycles == 2
WakeMaxWait == 60
WakeInterval == 5

Returned(body) == [kind |-> "body", body |-> body]
ReturnedNone == [kind |-> "none"]
Raised == [kind |-> "raise"]

Car(id, name, state) == [id |-> id, display_name |-> name, state |-> state]

\* the "response" of GET /api/1/vehicles: no car, one car, two cars, and a
\* car that comes without display_name and state
Fleets ==
    {<<>>, <<[id |-> 1]>>}
    \cup {<<Car(1, "Model Y", s)>> : s \in States}
    \cup {<<Car(1, "Model Y", s[1]), Car(2, "Model 3", s[2])>> :
              s \in {"online", "asleep"} \X {"online", "asleep", "offline"}}

ListOutcomes ==
    {ReturnedNone, Raised, Returned(EmptyDict)} \cup {Returned([response |-> f]) : f \in Fleets}

\* what the lists made while a vehicle wakes say: it sleeps on or is online,
\* alone or beside another car
WakeFleets ==
    {<<Car(1, "Model Y", s)>> : s \in {"asleep", "online"}}
    \cup {<<Car(1, "Model Y", "asleep"), Car(2, "Model 3", "online")>>,
          <<Car(1, "Model Y", "online"), Car(2, "Model 3", "asleep")>>}

WakeListOutcomes ==
    {ReturnedNone, Raised} \cup {Returned([response |-> f]) : f \in WakeFleets}

DataOutcomes ==
    {ReturnedNone, Raised, Returned(EmptyDict)}
    \cup {Returned([response |-> d]) : d \in VehicleData}

WakeOutcomes == {ReturnedNone, Raised, Returned(EmptyDict)}

ListRequest == [method |-> "GET", path |-> "/api/1/vehicles"]
WakeRequest == [method |-> "POST", path |-> "/api/1/vehicles/{id}/wake_up"]
DataRequest == [method |-> "GET", path |-> "/api/1/vehicles/{id}/vehicle_data"]

\* tesla_client.py 88-92, on the outcome r of its _request
list_vehicles(r) ==
    IF r.kind = "none" THEN <<>> ELSE Get(r.body, "response", <<>>)

\* tesla_client.py 94-111
get_vehicle_data(r) ==
    IF r.kind = "none" THEN None ELSE Get(r.body, "response", None)

IsAnyAwake(vehicles, id) ==
    \E i \in DOMAIN vehicles :
        "state" \in DOMAIN vehicles[i] /\ vehicles[i]["state"] = "online"

\* tesla_client.py 126-129
IsAwake(vehicles, id) ==
    \E i \in DOMAIN vehicles :
        /\ "id" \in DOMAIN vehicles[i] /\ vehicles[i]["id"] = id
        /\ "state" \in DOMAIN vehicles[i] /\ vehicles[i]["state"] = "online"

PollConfigs ==
    [tesla_vehicle_index : {0, 1},
     wake_on_poll : BOOLEAN,
     poll_interval_seconds : {DefaultPollInterval},
     sleep_poll_interval_seconds : {DefaultSleepPollInterval}]

\* current_state before its first assignment, and a cycle whose list gave
\* no vehicle
Unbound == "(unbound)"
NotListed == "(not listed)"

NotCalled == [kind |-> "not called"]
Listed(vehicles) == [kind |-> "vehicles", vehicles |-> vehicles]

\* the latest list_vehicles, on the outcome r of its _request
ListResult(r) == IF r.kind = "raise" THEN Raised ELSE Listed(list_vehicles(r))

PollInit ==
    /\ pollPc = "top"
    /\ stop_event = FALSE
    /\ vehicle_id = None
    /\ vehicle_name = "unknown"
    /\ current_state = Unbound
    /\ elapsed = 0
    /\ wait_interval = None
    /\ cycles = 0
    /\ cycleLog = <<>>
    /\ listed = NotListed
    /\ wakeOk = FALSE
    /\ sinkBefore = NewCollector
    /\ listFailures = 0
    /\ reported = NotListed
    /\ cycleEnd = "running"
    /\ lastList = NotCalled

\* what no step of the loop touches
pollFrame == <<now, clientVars, config, scrapeVars, writerPc, writerArgs, mutations>>

\* the signal handler, lines 65-67
Shutdown ==
    /\ ~stop_event
    /\ stop_event' = TRUE
    /\ UNCHANGED <<pollPc, pollLocals, elapsed, wait_interval, cycles, pollGhosts>>
    /\ UNCHANGED <<pollFrame, collector, trackerVars>>

\* line 84, the signal set: the loop is left
PollExit ==
    /\ pollPc = "top"
    /\ stop_event
    /\ pollPc' = "exited"
    /\ UNCHANGED <<stop_event, pollLocals, elapsed, wait_interval, cycles, pollGhosts>>
    /\ UNCHANGED <<pollFrame, collector, trackerVars>>

\* lines 84-99: a cycle starts with the list
PollList(r) ==
    /\ pollPc = "top"
    /\ ~stop_event
    /\ cycles' = cycles + 1
    /\ listFailures' = IF r.kind = "raise" \/ list_vehicles(r) = <<>>
                       THEN listFailures + 1 ELSE 0
    /\ reported' = IF r.kind = "raise" \/ list_vehicles(r) = <<>>
                   THEN reported
                   ELSE LET vehicles == list_vehicles(r)
                        IN  Get(vehicles[Min(config.tesla_vehicle_index,
                                             Len(vehicles) - 1) + 1], "state", "unknown")
    /\ cycleLog' = <<ListRequest>>
    /\ lastList' = ListResult(r)
    /\ sinkBefore' = collector
    /\ wakeOk' = FALSE
    /\ elapsed' = 0
    /\ IF r.kind = "raise"
       THEN /\ pollPc' = "except"
            /\ listed' = NotListed
            /\ cycleEnd' = "running"
            /\ UNCHANGED <<collector, trackerVars, pollLocals>>
       ELSE LET vehicles == list_vehicles(r)
            IN  IF vehicles = <<>>
                THEN /\ collector' = mark_api_unreachable(collector)
                     /\ record_error
                     /\ pollPc' = "wait"
                     /\ listed' = NotListed
                     /\ cycleEnd' = "no_vehicles"
                     /\ UNCHANGED pollLocals
                ELSE LET vehicle == vehicles[Min(config.tesla_vehicle_index,
                                                 Len(vehicles) - 1) + 1]
                         state == Get(vehicle, "state", "unknown")
                     IN  /\ vehicle_id' = Get(vehicle, "id", None)
                         /\ vehicle_name' = Get(vehicle, "display_name", "Tesla")
                         /\ current_state' = state
                         /\ update_state(state)
                         /\ listed' = state
                         /\ cycleEnd' = "running"
                         /\ pollPc' = "should_fetch"
                         /\ UNCHANGED collector
    /\ UNCHANGED <<stop_event, wait_interval, pollFrame>>

\* line 103
NeedsWake(state) == state = "asleep" /\ config.wake_on_poll

\* lines 101-103 and 137-139
PollShouldFetch ==
    /\ pollPc = "should_fetch"
    /\ CallShouldFetchData(current_state)
    /\ IF should_fetch_data(current_state)
       THEN /\ pollPc' = IF NeedsWake(current_state) THEN "wake" ELSE "fetch"
            /\ UNCHANGED <<collector, cycleEnd>>
       ELSE /\ collector' = update(collector, [data |-> None, state |-> current_state,
                                               name |-> vehicle_name], now)
            /\ pollPc' = "wait"
            /\ cycleEnd' = "skipped"
    /\ UNCHANGED <<stop_event, pollLocals, elapsed, wait_interval, cycles, cycleLog,
                   listed, wakeOk, sinkBefore, listFailures, reported, lastList, pollFrame>>

\* the state the list vehicles gives for the vehicle id, other when it gives none
RECURSIVE StateOf(_, _, _)
StateOf(vehicles, id, other) ==
    IF vehicles = <<>> THEN other
    ELSE LET v == Head(vehicles)
         IN  IF "id" \in DOMAIN v /\ v.id = id
             THEN Get(v, "state", "unknown")
             ELSE StateOf(Tail(vehicles), id, other)

\* tesla_client.py 113-120: the wake_up command, its result dropped
WakePost(r) ==
    /\ pollPc = "wake"
    /\ cycleLog' = Append(cycleLog, WakeRequest)
    /\ elapsed' = 0
    /\ pollPc' = IF r.kind = "raise" THEN "except" ELSE "wake_poll"
    /\ UNCHANGED <<stop_event, pollLocals, wait_interval, cycles, listed, wakeOk,
                   sinkBefore, listFailures, reported, cycleEnd, lastList>>
    /\ UNCHANGED <<pollFrame, collector, trackerVars>>

\* tesla_client.py 122-129: one turn of the wait (sleep, count, list), and
\* main.py line 104 on True
WakePoll(r) ==
    /\ pollPc = "wake_poll"
    /\ elapsed < WakeMaxWait
    /\ elapsed' = elapsed + WakeInterval
    /\ cycleLog' = Append(cycleLog, ListRequest)
    /\ lastList' = ListResult(r)
    /\ IF r.kind = "raise"
       THEN /\ pollPc' = "except"
            /\ UNCHANGED wakeOk
       ELSE IF IsAwake(list_vehicles(r), vehicle_id)
       THEN /\ pollPc' = "fetch"
            /\ wakeOk' = TRUE
       ELSE /\ pollPc' = "wake_poll"
            /\ UNCHANGED wakeOk
    /\ reported' = IF r.kind = "raise" THEN reported
                   ELSE StateOf(list_vehicles(r), vehicle_id, reported)
    /\ UNCHANGED <<stop_event, pollLocals, wait_interval, cycles, listed, sinkBefore,
                   listFailures, cycleEnd>>
    /\ UNCHANGED <<pollFrame, collector, trackerVars>>

\* tesla_client.py 131-132 and main.py 104-106: the wait is over
WakeTimedOut ==
    /\ pollPc = "wake_poll"
    /\ elapsed >= WakeMaxWait
    /\ collector' = update(collector, [data |-> None, state |-> current_state,
                                       name |-> vehicle_name], now)
    /\ record_error
    /\ pollPc' = "wait"
    /\ cycleEnd' = "wake_timed_out"
    /\ UNCHANGED <<stop_event, pollLocals, elapsed, wait_interval, cycles, cycleLog,
                   listed, wakeOk, sinkBefore, listFailures, reported, lastList, pollFrame>>

\* lines 112-135
PollFetch(r) ==
    /\ pollPc = "fetch"
    /\ cycleLog' = Append(cycleLog, DataRequest)
    /\ IF r.kind = "raise"
       THEN /\ pollPc' = "except"
            /\ UNCHANGED <<collector, trackerVars, cycleEnd>>
       ELSE LET data == get_vehicle_data(r)
                seen_state == [data |-> data, state |-> current_state,
                               name |-> vehicle_name]
            IN  /\ pollPc' = "wait"
                /\ IF data # None
                   THEN /\ collector' = update(collector, seen_state, now)
                        /\ record_successful_fetch
                        /\ cycleEnd' = "fetched"
                   ELSE /\ collector' = collector_record_error(
                                            update(collector, seen_state, now),
                                            "vehicle_data_failed")
                        /\ record_error
                        /\ cycleEnd' = "fetch_failed"
    /\ UNCHANGED <<stop_event, pollLocals, elapsed, wait_interval, cycles, listed,
                   wakeOk, sinkBefore, listFailures, reported, lastList, pollFrame>>

\* lines 141-144
PollExcept ==
    /\ pollPc = "except"
    /\ collector' = collector_record_error(collector, "unexpected_error")
    /\ record_error
    /\ pollPc' = "wait"
    /\ cycleEnd' = "exception"
    /\ UNCHANGED <<stop_event, pollLocals, elapsed, wait_interval, cycles, cycleLog,
                   listed, wakeOk, sinkBefore, listFailures, reported, lastList, pollFrame>>

\* lines 107-108 and 147-149: the interval is chosen and the wait begins
PollWait ==
    /\ pollPc = "wait"
    /\ CallGetPollInterval
    /\ wait_interval' = get_poll_interval
    /\ pollPc' = "waiting"
    /\ UNCHANGED <<stop_event, pollLocals, elapsed, cycles, pollGhosts>>
    /\ UNCHANGED <<pollFrame, collector>>

\* time.sleep(timeout): returns when the time is over
SleepReturns(set, timedOut) == timedOut

\* threading.Event.wait(timeout): returns when the flag is set or the time is
\* over
EventWaitReturns(set, timedOut) == set \/ timedOut

\* stop_event.wait returns and the loop is at its top again (line 109:
\* continue)
WaitOver(timedOut) ==
    /\ pollPc = "waiting"
    /\ EventWaitReturns(stop_event, timedOut)
    /\ pollPc' = "top"
    /\ UNCHANGED <<stop_event, pollLocals, elapsed, wait_interval, cycles, pollGhosts>>
    /\ UNCHANGED <<pollFrame, collector, trackerVars>>

(***************************************************************************)
(* The state after construction: nothing called yet, the default Config.   *)
(***************************************************************************)
Init ==
    /\ AuthInit
    /\ now = 0
    /\ config = DefaultConfig
    /\ SleepTrackerInit
    /\ TeslaCollectorInit
    /\ PollInit

(***************************************************************************)
(* The credential manager on its own: every operation of TeslaAuth, every  *)
(* answer of the token endpoint, every fault of the token file.            *)
(***************************************************************************)
Next ==
    \/ LoadToken
    \/ \E r \in GrantResponses(FreshId), si \in SaveInputs :
           ExchangeCode(r, si[1], si[2])
    \/ CallAccessToken
    \/ CallRefresh
    \/ \E r \in GrantResponses(FreshId), si \in SaveInputs :
           RefreshPost(r, si[1], si[2])
    \/ \E d \in TickSteps : Tick(d)

Spec == Init /\ [][Next]_vars

(***************************************************************************)
(* The API client on top of the credential manager.  The clock is read by  *)
(* is_token_valid alone, and both of its answers arise at any one time     *)
(* from the credentials on file and from the expires_in of the endpoint's  *)
(* answers, so here the clock stands still.                                *)
(***************************************************************************)
\* the token endpoint and the token file as the client meets them: a grant is
\* answered by a full body, by a body without access_token, by a 503 or not at
\* all, and save_token fails in os.replace or not at all
ClientGrantResponses(n) ==
    {r \in GrantResponses(n) :
        \/ r.kind = "exc"
        \/ r.status = 503
        \/ r.status = 200 /\ {"refresh_token", "expires_in", "token_type"} \subseteq DOMAIN r.data}

ClientSaveInputs == {si \in SaveInputs : si[1] \in {"none", "replace"} /\ ~si[2]}

ClientNext ==
    \/ LoadToken
    \/ CallAccessToken
    \/ \E r \in ClientGrantResponses(FreshId), si \in ClientSaveInputs :
           RefreshPost(r, si[1], si[2])
    \/ CallRequest
    \/ ReqTop
    \/ \E r \in ApiResponses : ReqSend(r)

ClientSpec == Init /\ [][ClientNext]_vars

\* the thread keeps running and every request is answered or times out
FairClientSpec == ClientSpec /\ WF_vars(ClientNext)

(***************************************************************************)
(* The sleep tracker on its own, under every Config: its five methods in   *)
(* any order, with the clock moving between them.                          *)
(***************************************************************************)
TrackerInit ==
    /\ AuthInit
    /\ file = Absent
    /\ now = 0
    /\ config \in Configs
    /\ SleepTrackerInit
    /\ TeslaCollectorInit
    /\ PollInit

TrackerNext ==
    \/ \E state \in States : update_state(state) /\ UNCHANGED trackerFrame
    \/ record_error /\ UNCHANGED trackerFrame
    \/ record_successful_fetch /\ UNCHANGED trackerFrame
    \/ \E state \in States : CallShouldFetchData(state) /\ UNCHANGED trackerFrame
    \/ CallGetPollInterval /\ UNCHANGED trackerFrame
    \/ \E d \in TickSteps : Tick(d)

TrackerSpec == TrackerInit /\ [][TrackerNext]_vars

(***************************************************************************)
(* The collector between its two threads: the polling thread's three       *)
(* mutators against a scrape, the clock reading a positive time.           *)
(***************************************************************************)
MetricsInit ==
    /\ AuthInit
    /\ file = Absent
    /\ now = 1
    /\ config = DefaultConfig
    /\ SleepTrackerInit
    /\ TeslaCollectorInit
    /\ PollInit

MetricsNext ==
    \/ \E args \in UpdateArgs : UpdateCall(args)
    \/ UpdateNext
    \/ \E error_type \in ErrorTypes : RecordError(error_type)
    \/ MarkApiUnreachable
    \/ CollectName
    \/ CollectUp
    \/ CollectReachable
    \/ CollectLastPoll
    \/ CollectErrorsIter
    \/ CollectErrorsNext
    \/ CollectData
    \/ CollectReturn
    \/ \E d \in TickSteps : Tick(d)

MetricsSpec == MetricsInit /\ [][MetricsNext]_vars

(***************************************************************************)
(* The polling loop over tracker and collector, under both settings of     *)
(* wake_on_poll and both vehicle indexes.                                  *)
(***************************************************************************)
PollSpecInit ==
    /\ AuthInit
    /\ file = Absent
    /\ now = 1
    /\ config \in PollConfigs
    /\ SleepTrackerInit
    /\ TeslaCollectorInit
    /\ PollInit

\* the clock is read once per cycle (metrics.py 54, sleep_tracker.py 39): time
\* that passes inside a cycle is time that passed before it
PollTick(d) == pollPc = "waiting" /\ Tick(d)

PollNext ==
    \/ \E r \in ListOutcomes : cycles < MaxCycles /\ PollList(r)
    \/ PollShouldFetch
    \/ \E r \in WakeOutcomes : WakePost(r)
    \/ \E r \in WakeListOutcomes : WakePoll(r)
    \/ WakeTimedOut
    \/ \E r \in DataOutcomes : PollFetch(r)
    \/ PollExcept
    \/ PollWait
    \/ \E timedOut \in BOOLEAN : WaitOver(timedOut)
    \/ Shutdown
    \/ PollExit
    \/ \E d \in TickSteps : PollTick(d)

PollSpec == PollSpecInit /\ [][PollNext]_vars

\* the steps of the loop itself: its thread keeps running, and every call it
\* makes returns or raises
PollLoopNext ==
    \/ \E r \in ListOutcomes : cycles < MaxCycles /\ PollList(r)
    \/ PollShouldFetch
    \/ \E r \in WakeOutcomes : WakePost(r)
    \/ \E r \in WakeListOutcomes : WakePoll(r)
    \/ WakeTimedOut
    \/ \E r \in DataOutcomes : PollFetch(r)
    \/ PollExcept
    \/ PollWait
    \/ \E timedOut \in BOOLEAN : WaitOver(timedOut)
    \/ PollExit

\* where the loop is; every step of the loop changes it
loopPosition == <<pollPc, elapsed, cycles>>

(***************************************************************************)
(* The polling loop over a longer run: one car, online or asleep, no       *)
(* shutdown signal, and every way a cycle can fail.                        *)
(***************************************************************************)
MaxRun == 5         \* poll cycles in such a run

RunFleets == {<<Car(1, "Model Y", s)>> : s \in {"online", "asleep"}}

RunListOutcomes == {ReturnedNone, Raised} \cup {Returned([response |-> f]) : f \in RunFleets}

RunDataOutcomes == {ReturnedNone, Raised, Returned([response |-> [data |-> 1]])}

RunInit ==
    /\ PollSpecInit
    /\ config.tesla_vehicle_index = 0

RunNext ==
    \/ \E r \in RunListOutcomes : cycles < MaxRun /\ PollList(r)
    \/ PollShouldFetch
    \/ WakePost(ReturnedNone)
    \/ \E f \in RunFleets : WakePoll(Returned([response |-> f]))
    \/ WakeTimedOut
    \/ \E r \in RunDataOutcomes : PollFetch(r)
    \/ PollExcept
    \/ PollWait
    \/ WaitOver(TRUE)

RunSpec == RunInit /\ [][RunNext]_vars

(***************************************************************************)
(* Properties.                                                             *)
(***************************************************************************)
Persisted == IF file.kind = "json" THEN json_load(file.text) ELSE None

\* the step that starts a read of the access_token property on its own
AccessTokenStep == pc = "idle" /\ op' = "access_token" /\ now' = now

\* C1: whenever no operation is in progress, and at every step of one, the
\* credential in memory is absent or is exactly the record the token file
\* holds: a new credential reaches memory only once it is on disk, and a
\* save_token that failed leaves memory as it was.
C1_MemoryIsPersisted ==
    token_data = None \/ (file.kind = "json" /\ token_data = Persisted)

\* a save_token inside a refresh has failed and the credential still in memory
\* is the one on disk
C1_Witness ==
    /\ pc = "idle"
    /\ saveLog.called /\ saveLog.raised # "none"
    /\ token_data # None
    /\ token_data = Persisted

\* C2: once a refresh has run out of attempts and until load_token or
\* exchange_code installs a credential, no credential is held, every
\* access_token read and every _request that ends has returned None without
\* raising, and no step sends an API request, posts a grant or enters
\* refresh_access_token.
C2_ExhaustedStaysUnavailable ==
    /\ [](exhausted =>
            /\ token_data = None
            /\ pc \notin {"req_send", "rf_post"}
            /\ (pc = "idle" /\ op \in {"access_token", "request"})
                   => (result = None /\ raised = "none")
            /\ (pc = "idle" /\ op = "request") => outcome = "auth")
    /\ [][exhausted =>
            /\ httpCount' <= httpCount
            /\ grants' <= grants
            /\ refreshCalls' <= refreshCalls]_vars

\* a _request started after the exhaustion has ended: no request, no refresh
C2_Witness ==
    /\ exhausted
    /\ pc = "idle" /\ op = "request"
    /\ httpCount = 0 /\ refreshCalls = 0
    /\ outcome = "auth" /\ result = None

\* C3: a read of access_token with a credential whose expires_at is more than
\* 300 s ahead returns that credential's access token at once, enters no
\* refresh, posts no grant, and leaves memory and the token file as they were.
C3_FreshTokenReturnedAsIs ==
    [][(/\ AccessTokenStep
        /\ token_data # None
        /\ Get(token_data, "expires_at", 0) > now + 300)
       => (/\ pc' = "idle"
           /\ result' = Get(token_data, "access_token", None)
           /\ raised' = "none"
           /\ refreshCalls' = 0
           /\ grants' = 0
           /\ rfOutcome' = "none"
           /\ token_data' = token_data
           /\ file' = file)]_vars

\* the token of a credential good for more than 300 s was handed out
C3_Witness ==
    /\ pc = "idle" /\ op = "access_token"
    /\ token_data # None
    /\ Get(token_data, "expires_at", 0) > now + 300
    /\ result = token_data["access_token"]
    /\ refreshCalls = 0

\* C4: a read of access_token with a credential whose expires_at is at most
\* 300 s ahead (or past) enters refresh_access_token once, which posts a grant
\* when the credential has a refresh token; no second refresh is entered before
\* the read returns, and a read that went through the refresh loop returns
\* after at least one grant.
C4_StaleTokenRefreshedOnce ==
    /\ [][(/\ AccessTokenStep
           /\ token_data # None
           /\ Get(token_data, "expires_at", 0) <= now + 300)
          => (/\ refreshCalls' = 1
              /\ HasRefreshToken(token_data)
                    => (pc' = "rf_post" /\ rfOutcome' = "running" /\ grants' = 0))]_vars
    /\ [][(op = "access_token" /\ pc # "idle")
          => (refreshCalls' = refreshCalls /\ op' = op)]_vars
    /\ [][(op = "access_token" /\ pc = "rf_post")
          => (grants' = grants + 1 \/ now' # now)]_vars
    /\ []((op = "access_token" /\ pc = "idle" /\ refreshCalls # 0)
          => (refreshCalls = 1 /\ (rfOutcome # "no_refresh_token" => grants >= 1)))

\* a read that found the credential stale has returned the refreshed token
C4_Witness ==
    /\ pc = "idle" /\ op = "access_token"
    /\ refreshCalls = 1
    /\ rfOutcome = "success"
    /\ grants >= 1
    /\ token_data # None
    /\ result = token_data["access_token"]

\* C5: a grant answered by a 200 whose body lacks access_token or
\* refresh_token changes neither the token file nor the credential in memory
\* and is no success; neither does any other answer than a complete 200, so
\* the record on disk after such a refresh is the record from before it.
C5_IncompleteBodyNotStored ==
    [][(pc = "rf_post" /\ grants' = grants + 1 /\ lastGrant' # "complete_200")
       => (/\ file' = file
           /\ token_data' \in {token_data, None}
           /\ lastGrant' = "incomplete_200"
                 => (token_data' = token_data /\ rfOutcome' # "success"))]_vars

\* a refresh was answered by a 200 without one of the tokens
C5_Witness ==
    /\ pc = "idle"
    /\ lastGrant = "incomplete_200"
    /\ raised = "KeyError"
    /\ token_data # None /\ token_data = Persisted

\* C6: when save_token fails inside refresh_access_token, the operation that
\* ran the refresh is over and has raised what save_token raised: nothing was
\* returned (no token, no success), the refresh loop is left (no further
\* grant), and the credential in memory is still the one from before the grant.
C6_SaveFailurePropagates ==
    /\ []((saveLog.called /\ saveLog.raised # "none" /\ op # "exchange_code")
          => (/\ pc = "idle"
              /\ raised = saveLog.raised
              /\ result = None
              /\ rfOutcome = "raised"
              /\ lastGrant = "complete_200"))
    /\ [][(pc = "rf_post" /\ saveLog'.called /\ saveLog'.raised # "none")
          => (token_data' = token_data /\ pc' = "idle")]_vars

\* an access_token read ended in the OSError of the save_token of its refresh
C6_Witness ==
    /\ pc = "idle" /\ op = "access_token"
    /\ saveLog.called /\ saveLog.raised = "OSError"
    /\ raised = "OSError"
    /\ result = None

\* the step in which save_token runs
SaveStep ==
    \/ pc = "idle" /\ op' = "exchange_code" /\ saveLog'.called
    \/ pc = "rf_post" /\ grants' = grants + 1 /\ lastGrant' = "complete_200"

\* C7: a save_token in which creating the temporary file, writing it or the
\* rename fails raises that I/O failure (an OSError) to its caller, leaves the
\* token file as it was and leaves no temporary file behind.
C7_SaveFailureRaisedCleanly ==
    [][(SaveStep /\ saveLog'.fault \in {"mkstemp", "write", "replace"})
       => (/\ raised' = "OSError"
           /\ file' = file
           /\ ~saveLog'.tmpLeft)]_vars

\* C8: refresh_access_token posts at most 5 grants; the k-th sleep is
\* min(2^(k-1), 60) s and there is one after each of the first four failed
\* attempts (1, 2, 4, 8) and none after the fifth; it ends in success only on a
\* complete 200, at once and with every earlier attempt failed; it ends
\* exhausted only after five failed attempts, with the credential discarded.
C8_RefreshRetryPolicy ==
    /\ grants <= 5
    /\ \A k \in DOMAIN rfSleeps : rfSleeps[k] = Min(2 ^ (k - 1), 60)
    /\ Len(rfSleeps) <= 4
    /\ rfOutcome = "running"
          => (/\ pc = "rf_post"
              /\ grants <= 4
              /\ Len(rfSleeps) = grants
              /\ lastGrant \in {"none", "non_200", "transport_failure"})
    /\ rfOutcome = "success"
          => (/\ pc = "idle"
              /\ lastGrant = "complete_200"
              /\ grants >= 1
              /\ Len(rfSleeps) = grants - 1)
    /\ rfOutcome = "exhausted"
          => (/\ pc = "idle"
              /\ grants = 5
              /\ rfSleeps = <<1, 2, 4, 8>>
              /\ lastGrant \in {"non_200", "transport_failure"}
              /\ token_data = None
              /\ result = None)
    /\ pc = "rf_post" => rfOutcome = "running"

\* five grants failed: four sleeps, the credential is gone
C8_Witness ==
    /\ rfOutcome = "exhausted"
    /\ grants = 5
    /\ rfSleeps = <<1, 2, 4, 8>>
    /\ token_data = None

\* the i-th answer of the current _request ends it: a 200, or a status the
\* loop returns on
Decisive(i) ==
    LET r == respLog[i]
    IN  /\ r.kind = "http"
        /\ \/ r.status = 200
           \/ r.status = 408
           \/ r.status = 401 /\ i > 1
           \/ r.status \in 400..499 /\ r.status \notin {401, 408, 429}

BackoffSleeps == SelectSeq(reqSleeps, LAMBDA sl : sl.kind = "backoff")

ServerFailure(r) == r.kind = "exc" \/ r.status >= 500

StatusesOf(log) == [i \in DOMAIN log |-> log[i].status]

\* C10: within a _request there is one back-off sleep for each 5xx answer or
\* transport failure that another attempt follows, the first of 1 s and the
\* second of 2 s; answers 500, 500, 200 end in the body of the third answer
\* after sleeps of 1 s and 2 s and no other.
C10_RequestBackoff ==
    /\ Len(BackoffSleeps)
          = Cardinality({i \in DOMAIN respLog : ServerFailure(respLog[i]) /\ i < 3})
    /\ \A k \in DOMAIN BackoffSleeps : BackoffSleeps[k].secs = Min(2 ^ (k - 1), 60)
    /\ (pc = "idle" /\ op = "request" /\ StatusesOf(respLog) = <<500, 500, 200>>)
          => (/\ result = [body |-> 3]
              /\ raised = "none"
              /\ reqSleeps = <<[kind |-> "backoff", secs |-> 1],
                               [kind |-> "backoff", secs |-> 2]>>)

\* 500, 500, 200 happened
C10_Witness ==
    /\ pc = "idle" /\ op = "request"
    /\ StatusesOf(respLog) = <<500, 500, 200>>
    /\ result = [body |-> 3]

\* a credential with more than 300 s to live at time t
LivesBeyondMargin(td, t) ==
    /\ td \notin {None, Unset}
    /\ Get(td, "expires_at", 0) > t + 300

AnswerStep == pc = "req_send" /\ httpCount' = httpCount + 1

Answer == respLog'[httpCount']

\* C12: a 401 answering the first request of a _request enters
\* refresh_access_token once, without a sleep, and the call goes on (to the
\* grant loop or to the next turn); a 401 answering a later request ends the
\* call at once with None through the client-error return: no refresh, no
\* grant, no sleep.  A call that did not raise and whose only answer was a 401
\* ended because no token was left to retry with.
C12_UnauthorizedOnlyOnce ==
    /\ [][(AnswerStep /\ Answer.kind = "http" /\ Answer.status = 401)
          => IF httpCount = 0
             THEN /\ refreshCalls' = refreshCalls + 1
                  /\ reqSleeps' = reqSleeps
                  /\ pc' \in {"rf_post", "req_top"}
                  /\ pc' = "req_top" => attempt' = 1
             ELSE /\ pc' = "idle"
                  /\ outcome' = "client_error"
                  /\ result' = None
                  /\ raised' = "none"
                  /\ refreshCalls' = refreshCalls
                  /\ grants' = grants
                  /\ reqSleeps' = reqSleeps]_vars
    /\ []((pc = "idle" /\ op = "request" /\ raised = "none"
             /\ StatusesOf(respLog) = <<401>>)
          => outcome = "auth")

\* a 401 after a 429 ended the call
C12_Witness ==
    /\ pc = "idle" /\ op = "request"
    /\ StatusesOf(respLog) = <<429, 401>>
    /\ outcome = "client_error"
    /\ refreshCalls = 0

\* the sleep the step has added to those of the current _request
NewSleep == reqSleeps'[Len(reqSleeps')]

\* C13: a 429 makes the _request sleep once, for the delay the server named
\* in Retry-After (30 s without the header), and go on to the next turn of the
\* loop: the attempt is used up, the back-off delay is left as it was.
C13_RateLimitHonoured ==
    [][(AnswerStep /\ Answer.kind = "http" /\ Answer.status = 429)
       => (/\ raised' = "none"
           /\ pc' = "req_top"
           /\ attempt' = attempt + 1
           /\ backoff' = backoff
           /\ Len(reqSleeps') = Len(reqSleeps) + 1
           /\ NewSleep.kind = "retry_after"
           /\ Answer.headers = EmptyDict => NewSleep.secs = 30
           /\ Answer.headers = RetryAfterHeader(DelaySeconds) => NewSleep.secs = 5)]_vars

\* C14: a 408, and any 4xx other than a 429 and other than a 401 answering
\* the first request, ends the _request in the step it arrives, on whatever
\* attempt: None is returned (through the 408 return for a 408, the
\* client-error return otherwise), and the step neither sleeps nor enters a
\* refresh nor posts a grant.
C14_TerminalStatuses ==
    [][(/\ AnswerStep
        /\ Answer.kind = "http"
        /\ Answer.status \in 400..499
        /\ Answer.status # 429
        /\ ~(Answer.status = 401 /\ httpCount = 0))
       => (/\ pc' = "idle"
           /\ result' = None
           /\ raised' = "none"
           /\ outcome' = IF Answer.status = 408 THEN "unreachable_408" ELSE "client_error"
           /\ reqSleeps' = reqSleeps
           /\ refreshCalls' = refreshCalls
           /\ grants' = grants
           /\ token_data' = token_data)]_vars

\* a 408 on the second attempt and a 404 on the third have each ended a call
C14_Witness ==
    /\ pc = "idle" /\ op = "request"
    /\ \/ StatusesOf(respLog) = <<500, 408>> /\ outcome = "unreachable_408"
       \/ StatusesOf(respLog) = <<429, 500, 404>> /\ outcome = "client_error"
    /\ result = None

(***************************************************************************)
(* SleepTracker.                                                           *)
(***************************************************************************)
\* this step is a call of the named SleepTracker method
Called(name) == trackerOp' # trackerOp /\ trackerOp'.name = name

\* C18: should_fetch_data(state) answers TRUE for "online", for "asleep"
\* exactly when wake_on_poll is set, and FALSE for every other state,
\* whatever the tracker's fields hold; and it changes none of them.
C18_ShouldFetch ==
    /\ [](trackerOp.name = "should_fetch_data"
          => trackerRet = (\/ trackerOp.arg = "online"
                           \/ trackerOp.arg = "asleep" /\ config.wake_on_poll))
    /\ [][Called("should_fetch_data")
          => UNCHANGED <<last_known_state, last_data_fetch, consecutive_errors>>]_vars

C18_Witness ==
    /\ trackerOp.name = "should_fetch_data"
    /\ trackerOp.arg = "asleep"
    /\ config.wake_on_poll
    /\ trackerRet = TRUE
    /\ last_known_state = "offline"
    /\ consecutive_errors > 0

\* C19: get_poll_interval() is the larger of the two intervals once five
\* errors in a row are counted, whatever the state; below five it is the
\* sleep interval in the states asleep, offline and unknown, and the normal
\* interval in every other state.
C19_NextInterval ==
    trackerOp.name = "get_poll_interval"
    => /\ consecutive_errors >= 5
          => trackerRet = Max(config.poll_interval_seconds,
                              config.sleep_poll_interval_seconds)
       /\ consecutive_errors < 5 /\ last_known_state \in {"asleep", "offline", "unknown"}
          => trackerRet = config.sleep_poll_interval_seconds
       /\ consecutive_errors < 5 /\ last_known_state \notin {"asleep", "offline", "unknown"}
          => trackerRet = config.poll_interval_seconds

C19_Witness ==
    /\ trackerOp.name = "get_poll_interval"
    /\ consecutive_errors = 5
    /\ last_known_state = "online"
    /\ config.poll_interval_seconds > config.sleep_poll_interval_seconds
    /\ trackerRet = config.poll_interval_seconds

\* C20: the error count goes down only in update_state, and every
\* update_state leaves it at 0, the state new or not; record_successful_fetch
\* changes the fetch time and nothing else; record_error adds exactly one to
\* the count and leaves the state.
C20_ErrorCount ==
    [][/\ consecutive_errors' < consecutive_errors => Called("update_state")
       /\ Called("update_state")
          => consecutive_errors' = 0 /\ last_known_state' = trackerOp'.arg
       /\ Called("record_successful_fetch")
          => /\ last_data_fetch' = now
             /\ UNCHANGED <<last_known_state, consecutive_errors>>
       /\ Called("record_error")
          => /\ consecutive_errors' = consecutive_errors + 1
             /\ UNCHANGED <<last_known_state, last_data_fetch>>]_vars

\* an update_state to the state already held has cleared a count
C20_Witness ==
    /\ trackerOp.name = "update_state"
    /\ trackerOp.before.state = trackerOp.arg
    /\ trackerOp.before.errors > 1
    /\ consecutive_errors = 0
    /\ last_data_fetch > 0

(***************************************************************************)
(* TeslaCollector.                                                         *)
(***************************************************************************)
\* C15: a collect() that runs while the polling thread calls update,
\* record_error or mark_api_unreachable never fails, and what it reports is
\* what the collector held at one instant of the scrape.
C15_ScrapeIsSnapshot ==
    scrapePc \in {"done", "failed"}
    => /\ scrapePc # "failed"
       /\ \E c \in seen : snap = SnapshotOf(c)

(***************************************************************************)
(* The polling loop.                                                       *)
(***************************************************************************)
Issued(request) == \E i \in DOMAIN cycleLog : cycleLog[i] = request

\* C16: within a poll cycle a wake_up is sent only when the list gave the
\* target vehicle as asleep and wake_on_poll is set; vehicle_data is
\* requested only when the list gave it as online, or as asleep with
\* wake_on_poll set and wake_vehicle returned True; and a call of
\* list_vehicles, at the top of the cycle or inside wake_vehicle, sends the
\* list request and nothing else.
C16_WakeAndFetchGuarded ==
    /\ [](/\ Issued(WakeRequest) => listed = "asleep" /\ config.wake_on_poll
          /\ Issued(DataRequest)
             => \/ listed = "online"
                \/ listed = "asleep" /\ config.wake_on_poll /\ wakeOk)
    /\ [][/\ cycles' # cycles => cycleLog' = <<ListRequest>>
          /\ pollPc = "wake_poll" /\ cycleLog' # cycleLog
             => cycleLog' = Append(cycleLog, ListRequest)]_vars

C16_Witness ==
    /\ pollPc = "wait"
    /\ listed = "asleep"
    /\ config.wake_on_poll
    /\ wakeOk
    /\ Len(cycleLog) > 3
    /\ cycleLog[2] = WakeRequest
    /\ cycleLog[Len(cycleLog)] = DataRequest

\* C17: a cycle whose list gave the target vehicle in a state that is not
\* to be fetched (asleep without wake_on_poll, offline, unknown, any state
\* but online) sends the list request only, and leaves the collector
\* reachable, with the listed state, and with the vehicle data and the time
\* of the last successful poll that it had before the cycle.
C17_SkippedCycle ==
    (/\ pollPc \in {"wait", "waiting", "top", "exited"}
     /\ listed \notin {NotListed, "online"}
     /\ ~(listed = "asleep" /\ config.wake_on_poll))
    => /\ cycleLog = <<ListRequest>>
       /\ collector.api_reachable
       /\ collector.vehicle_state = listed
       /\ collector.vehicle_data = sinkBefore.vehicle_data
       /\ collector.last_successful_poll = sinkBefore.last_successful_poll

\* the skipped cycle came after a fetch, at a later time
C17_Witness ==
    /\ pollPc = "wait"
    /\ listed = "asleep"
    /\ ~config.wake_on_poll
    /\ sinkBefore.vehicle_data # None
    /\ sinkBefore.vehicle_state = "online"
    /\ collector.vehicle_state = "asleep"
    /\ collector.vehicle_data = sinkBefore.vehicle_data
    /\ now > collector.last_successful_poll

RECURSIVE SumCounts(_)
SumCounts(items) ==
    IF items = <<>> THEN 0 ELSE items[1][2] + SumCounts(Tail(items))

\* all the error counters of a collector together
ErrorCount(c) == SumCounts(c.poll_errors)

FailedEnds == {"no_vehicles", "wake_timed_out", "fetch_failed", "exception"}

\* C21: a cycle that failed (no vehicle listed, wake timed out, fetch
\* failed, exception raised) has added one to an error counter of the
\* collector and made one record_error on the tracker, and the loop goes on
\* to its wait.
C21_FailuresCounted ==
    (cycleEnd \in FailedEnds /\ pollPc = "wait")
    => /\ ErrorCount(collector) = ErrorCount(sinkBefore) + 1
       /\ trackerOp.name = "record_error"
       /\ consecutive_errors = trackerOp.before.errors + 1

\* how many steps the loop is from its exit at most, once no cycle can start
StepsToExit ==
    CASE pollPc = "exited" -> 0
      [] pollPc = "top" -> 1
      [] pollPc = "waiting" -> 2
      [] pollPc = "wait" -> 3
      [] pollPc = "except" -> 4
      [] pollPc = "fetch" -> 5
      [] pollPc = "wake_poll" -> 6 + (WakeMaxWait - elapsed) \div WakeInterval
      [] pollPc = "wake" -> 7 + WakeMaxWait \div WakeInterval
      [] pollPc = "should_fetch" -> 8 + WakeMaxWait \div WakeInterval

\* C22: with the shutdown signal set no poll cycle starts; a wait that the
\* signal finds, or that starts after it, returns without its time being
\* over; wherever the signal found the loop, the loop can always take a
\* step until it has left, and each step brings it nearer to its exit; and
\* the loop leaves only with the signal set.
C22_ShutdownStopsLoop ==
    /\ [][~stop_event]_cycles
    /\ [](pollPc = "waiting" /\ stop_event => ENABLED WaitOver(FALSE))
    /\ [](stop_event /\ pollPc # "exited" => ENABLED PollLoopNext)
    /\ [][stop_event => StepsToExit' < StepsToExit]_loopPosition
    /\ [](pollPc = "exited" => stop_event)

\* the signal came while the vehicle was being woken, and the loop has left
C22_Witness ==
    /\ pollPc = "exited"
    /\ stop_event
    /\ cycleEnd = "wake_timed_out"
    /\ cycles = 1

\* the lists wake_vehicle has made in this cycle
WakePolls == Cardinality({i \in DOMAIN cycleLog : i > 2 /\ cycleLog[i] = ListRequest})

\* the latest list came back and shows the target vehicle online
ReportsOnline ==
    /\ lastList.kind = "vehicles"
    /\ \E i \in DOMAIN lastList.vehicles :
           LET v == lastList.vehicles[i]
           IN  /\ "id" \in DOMAIN v /\ v.id = vehicle_id
               /\ "state" \in DOMAIN v /\ v.state = "online"

\* C23: wake_vehicle sends one wake_up and then lists once after each wait
\* of 5 seconds, 12 times at most; it goes on listing only while the lists
\* do not show the vehicle online, returns True at the first that does, and
\* returns False only when 12 lists have not.
C23_WakeBounded ==
    Issued(WakeRequest)
    => /\ Cardinality({i \in DOMAIN cycleLog : cycleLog[i] = WakeRequest}) = 1
       /\ cycleLog[2] = WakeRequest
       /\ WakePolls <= 12
       /\ elapsed = 5 * WakePolls
       /\ pollPc = "wake_poll" /\ WakePolls > 0 => ~ReportsOnline
       /\ wakeOk => ReportsOnline
       /\ cycleEnd = "wake_timed_out" => WakePolls = 12 /\ ~wakeOk /\ ~ReportsOnline

\* the twelfth list showed the vehicle online
C23_Witness ==
    /\ Issued(WakeRequest)
    /\ WakePolls = 12
    /\ wakeOk
    /\ pollPc = "fetch"

(***************************************************************************)
(* TeslaClient.list_vehicles over _request.                                *)
(***************************************************************************)
\* how the _request that has ended came out, as its caller meets it
RequestOutcome ==
    IF raised # "none" THEN Raised
    ELSE IF result = None THEN ReturnedNone
    ELSE Returned(result)

\* C24: when its _request has failed, for whatever reason, list_vehicles
\* returns the empty list and raises nothing.
C24_ListEmptyOnFailure ==
    (pc = "idle" /\ op = "request" /\ outcome # "ok")
    => ListResult(RequestOutcome) = Listed(<<>>)

(***************************************************************************)
(* TeslaAuth.load_token and save_token.                                    *)
(***************************************************************************)
\* C25: a load_token that found no file and one that found a malformed
\* file end differently for the caller; neither raises and neither reports
\* a credential loaded.
C25_LoadTellsApart ==
    (pc = "idle" /\ op = "load_token" /\ file.kind \in {"absent", "corrupt"})
    => /\ raised = "none"
       /\ ~result.loaded
       /\ result # LoadResult(IF file = Absent THEN Corrupt ELSE Absent)

\* save_token has just returned: the credential it was given is the one in memory
Saved == pc = "idle" /\ saveLog.called /\ saveLog.raised = "none"

RetryAfter401 ==
    /\ pc = "req_send" /\ attempt = 1 /\ httpCount = 1
    /\ respLog[1].kind = "http" /\ respLog[1].status = 401

\* the refresh after that 401 stored a credential with a new access token,
\* and it is the credential held now
ForcedRefreshStored ==
    /\ forcedCred \notin {Unset, None}
    /\ "access_token" \in DOMAIN forcedCred
    /\ forcedCred["access_token"] # sentAuth[1]
    /\ token_data = forcedCred

\* C27: every API request _request sends carries the access token TeslaAuth
\* holds at that attempt, the attempt having asked for it anew; the request
\* retried after a refresh that followed a 401 and stored a credential
\* carries that credential's access token, not the one of the first request.
C27_BearerIsHeldToken ==
    /\ [][AnswerStep => /\ TokenOrNone(token_data) # None
                        /\ sentAuth' = Append(sentAuth, TokenOrNone(token_data))]_vars
    /\ []((RetryAfter401 /\ ForcedRefreshStored)
          => /\ reqToken = forcedCred["access_token"]
             /\ reqToken # sentAuth[1])

C27_Witness ==
    /\ pc = "idle" /\ op = "request"
    /\ httpCount = 2
    /\ respLog[1].kind = "http" /\ respLog[1].status = 401
    /\ rfOutcome = "success"
    /\ token_data = forcedCred
    /\ sentAuth = <<startCred["access_token"], token_data["access_token"]>>
    /\ sentAuth[1] # sentAuth[2]

(***************************************************************************)
(* TeslaAuth.access_token: what it hands out.                              *)
(***************************************************************************)
\* the step in which a read of access_token returns a token
ReturnsToken ==
    /\ op' = "access_token" /\ pc' = "idle" /\ now' = now
    /\ raised' = "none"
    /\ result' # None

\* C28: whenever a read of access_token returns a token, the credential then
\* held expires more than 300 s after that moment.
C28_ReturnedTokenOutlivesMargin ==
    [][ReturnsToken => LivesBeyondMargin(token_data', now')]_vars

(***************************************************************************)
(* The polling loop: the error count over several cycles.                  *)
(***************************************************************************)
\* the cycle is over: what is left is the wait
CycleOver == pollPc \in {"wait", "waiting"}

\* the end of a cycle whose list gave a vehicle leaves at most one error
ListedCycleEndsLow ==
    (CycleOver /\ listed # NotListed)
    => /\ listFailures = 0
       /\ consecutive_errors <= 1
       /\ consecutive_errors < ErrorSlowdownThreshold

C30_StatesFollowLatestList ==
    /\ CycleOver
       => /\ last_known_state = collector.vehicle_state
          /\ reported # NotListed => last_known_state = reported
    /\ (CycleOver /\ wakeOk /\ cycleEnd = "fetched")
       => /\ last_known_state = "online"
          /\ collector.vehicle_state = "online"
          /\ pollPc = "waiting" => wait_interval = config.poll_interval_seconds

(***************************************************************************)
(* TeslaClient._request: its sleeps and its attempts.                      *)
(***************************************************************************)
\* the step in which _request sleeps
SleepStep == Len(reqSleeps') = Len(reqSleeps) + 1

\* C31: _request sleeps, to back off or on a 429, only while another attempt
\* is permitted, and a _request that has ended sent an API request after
\* the last of its sleeps.
C31_SleepThenAttempt ==
    /\ [][SleepStep => attempt' < RequestMaxRetries]_vars
    /\ []((pc = "idle" /\ op = "request" /\ reqSleeps # <<>>) => httpCount > sleptAfter)

====
